---- MODULE Spec2Model ----
(***************************************************************************)
(* The match/event session of the handball statistics wizard               *)
(* (ui_app.py), the event and match constructors (stats_engine.py) and the *)
(* two append operations of the spreadsheet store (google_io.py).          *)
(*                                                                         *)
(* One action models one button handler of the Streamlit script, run to    *)
(* its st.rerun() or to the exception that ends the script run.  Text is   *)
(* a TLA+ string; text that the code parses (strip, replace) enters as a   *)
(* sequence of one-character strings and is joined after the conversion.   *)
(* The clock is one fixed reading, Now: no handler compares timestamps.    *)
(* The header row that get_stats_worksheet maintains is not part of the    *)
(* event log modelled here (stats_sheet holds the data rows).              *)
(***************************************************************************)
EXTENDS Integers, Sequences, FiniteSets, TLC

VARIABLES
    wizard_step,      \* st.session_state["wizard_step"]
    current_match,    \* st.session_state["current_match"]
    match_players,    \* st.session_state["match_players"]
    events,           \* st.session_state["events"]
    selected_event,   \* st.session_state["selected_event"]
    selected_player,  \* st.session_state["selected_player"]
    current_half,     \* st.session_state["current_half"]
    matches_sheet,    \* data rows of the store's "Matches" worksheet
    stats_sheet,      \* data rows of the store's statistics worksheet
    store_calls,      \* the append calls the last handler made on the store
    last_op           \* the handler that ran last, and how it ended

vars == <<wizard_step, current_match, match_players, events, selected_event,
          selected_player, current_half, matches_sheet, stats_sheet,
          store_calls, last_op>>

session == <<wizard_step, current_match, match_players, events,
             selected_event, selected_player, current_half>>

-----------------------------------------------------------------------------
(* Bounds of the exploration. *)

\* registrations and half-time captures explored in all, over every match
MaxEvents == 1

\* rows explored in all: the rows of stats_sheet plus the events held
MaxRows == 7

\* events held where the half-time captures are explored on their own
MaxCaptures == 3

\* events spent where the counters of the player buttons are explored
MaxRegistrations == 3

-----------------------------------------------------------------------------
(* Python values. *)

\* None in a slot that otherwise holds text
None == "None"

\* None where a match dict is expected
NoMatch == <<>>

\* bool(x) of a text-or-None value
Truthy(x) == x # None /\ x # ""

Digits == <<"0", "1", "2", "3", "4", "5", "6", "7", "8", "9">>

\* str(n), the "{n}" of an f-string, for a natural number
RECURSIVE StrOfNat(_)
StrOfNat(n) ==
    IF n < 10 THEN Digits[n + 1]
    ELSE StrOfNat(n \div 10) \o Digits[(n % 10) + 1]

\* "%m" and "%d" of strftime: two digits, zero padded
Pad2(n) == IF n < 10 THEN "0" \o StrOfNat(n) ELSE StrOfNat(n)

\* "%Y" of strftime, for the four-digit years that st.date_input offers
Pad4(n) == StrOfNat(n)

\* date.strftime("%Y-%m-%d")
StrfDate(d) == Pad4(d.year) \o "-" \o Pad2(d.month) \o "-" \o Pad2(d.day)

\* the characters str.strip() removes
IsSpace(c) == c \in {" ", "\t", "\n"}

RECURSIVE LStrip(_)
LStrip(s) ==
    IF s = <<>> THEN <<>>
    ELSE IF IsSpace(Head(s)) THEN LStrip(Tail(s)) ELSE s

RECURSIVE RStrip(_)
RStrip(s) ==
    IF s = <<>> THEN <<>>
    ELSE IF IsSpace(s[Len(s)]) THEN RStrip(SubSeq(s, 1, Len(s) - 1)) ELSE s

\* str.strip()
Strip(s) == RStrip(LStrip(s))

\* str.replace(" ", "_")
ReplaceSpaces(s) == [i \in 1..Len(s) |-> IF s[i] = " " THEN "_" ELSE s[i]]

\* the text made of the characters of s
RECURSIVE Join(_)
Join(s) == IF s = <<>> THEN "" ELSE Head(s) \o Join(Tail(s))

-----------------------------------------------------------------------------
(* Configuration and inputs. *)

EVENT_TYPES ==
    << <<"Mål", "M">>, <<"Assist", "A">>, <<"Frikast", "F">>,
       <<"Redning", "R">>, <<"Gult kort", "G">>, <<"2 min", "2">>,
       <<"Rødt kort", "X">> >>

EventLabels == {EVENT_TYPES[i][1] : i \in 1..Len(EVENT_TYPES)}

\* the options of the "Hold" selectbox of step 1
TeamOptions == <<"1", "2", "3">>

\* the clock reading stamped on events
Now == "2024-03-01 19:00:00"

\* the roster load_players returns (get_cached_players)
Roster ==
    << [name |-> "Anna", pos_primary |-> "PL", pos_secondary |-> "",
        team_primary |-> "1", team_secondary |-> "2"],
       [name |-> "Bo", pos_primary |-> "MV", pos_secondary |-> "PL",
        team_primary |-> "2", team_secondary |-> ""] >>

RosterNames == {Roster[i].name : i \in 1..Len(Roster)}

\* what the user enters or clicks in the explored runs
TeamInputs == {"1"}
DateInputs == {[year |-> 2024, month |-> 3, day |-> 1]}
OpponentInputs ==
    { <<" ", "F", "C", " ", "F", "a", "l", "c", "o", "n">>,
      <<"F", "C", " ", "F", "a", "l", "c", "o", "n", " ">> }
TypeClicks == {"Mål", "Gult kort"}
OursInputs == {12}
OppInputs == {9}
CommentInputs == { <<" ", "G", "o", "d", "t", " ", "k", "a", "m", "p", "\n">> }

\* the forms of step 1 explored for sessions of matches with different ids
MixTeams == {"1", "2"}
MixOpponents == { <<"A", "j", "a", "x">> }

\* the forms of step 1 explored for the match id alone
IdTeams == {TeamOptions[i] : i \in 1..Len(TeamOptions)}
IdDates ==
    { [year |-> 2024, month |-> 3, day |-> 1],
      [year |-> 2025, month |-> 11, day |-> 9],
      [year |-> 2024, month |-> 12, day |-> 31] }
IdOpponents ==
    { <<"F", "C", " ", "F", "a", "l", "c", "o", "n">>,
      <<" ", "F", "C", " ", "F", "a", "l", "c", "o", "n">>,
      <<"F", "C", " ", "F", "a", "l", "c", "o", "n", " ", " ">>,
      <<"\t", "F", "C", " ", "F", "a", "l", "c", "o", "n", "\n">>,
      <<"F", "C", " ", " ", "F", "o", "o">>,
      <<"F", "C", " ", "F", "o", "o">>,
      <<" ", "A", " ", "B", " ", "C", " ">>,
      <<"A", "\t", "B">>,
      <<"A", "j", "a", "x">>,
      <<" ", " ">>,
      <<>> }

-----------------------------------------------------------------------------
(* stats_engine.py *)

\* create_match_id replacing the spaces of the opponent as typed
create_match_id_unstripped(match_date, team_number, opponent) ==
    LET opp_clean == Join(ReplaceSpaces(opponent))
    IN  StrfDate(match_date) \o "_H" \o team_number \o "_" \o opp_clean

create_match_id(match_date, team_number, opponent) ==
    LET opp_clean == Join(ReplaceSpaces(Strip(opponent)))
    IN  StrfDate(match_date) \o "_H" \o team_number \o "_" \o opp_clean

create_match(match_date, team_number, opponent) ==
    [match_id    |-> create_match_id(match_date, team_number, opponent),
     date        |-> StrfDate(match_date),
     team_number |-> team_number,
     opponent    |-> Join(Strip(opponent))]

\* build_event copying the secondary position and team of the player
build_event_secondary(player, event_type, match_id) ==
    [timestamp    |-> Now,
     match_id     |-> match_id,
     player       |-> player.name,
     event        |-> event_type,
     pos_primary  |-> player.pos_secondary,
     team_primary |-> player.team_secondary]

build_event(player, event_type, match_id) ==
    [timestamp    |-> Now,
     match_id     |-> match_id,
     player       |-> player.name,
     event        |-> event_type,
     pos_primary  |-> player.pos_primary,
     team_primary |-> player.team_primary]

-----------------------------------------------------------------------------
(* google_io.py *)

\* dict.get(key, default)
Get(d, key, default) == IF key \in DOMAIN d THEN d[key] ELSE default

\* _event_to_row with 0 as the default of delta
_event_to_row_delta0(event) ==
    << Get(event, "timestamp", ""), Get(event, "match_id", ""),
       Get(event, "half", ""), Get(event, "player", ""),
       Get(event, "event", ""), Get(event, "pos_primary", ""),
       Get(event, "team_primary", ""), Get(event, "delta", 0),
       Get(event, "meta_value", "") >>

_event_to_row(event) ==
    << Get(event, "timestamp", ""), Get(event, "match_id", ""),
       Get(event, "half", ""), Get(event, "player", ""),
       Get(event, "event", ""), Get(event, "pos_primary", ""),
       Get(event, "team_primary", ""), Get(event, "delta", 1),
       Get(event, "meta_value", "") >>

\* rows = [_event_to_row(e) for e in events]
EventRows(evs) == [i \in 1..Len(evs) |-> _event_to_row(evs[i])]

\* the row append_match_record appends
MatchRow(match) ==
    << Get(match, "match_id", ""), Get(match, "date", ""),
       Get(match, "team_number", ""), Get(match, "opponent", "") >>

-----------------------------------------------------------------------------
(* ui_app.py: session state and helpers *)

defaults ==
    [wizard_step     |-> 1,
     current_match   |-> NoMatch,
     match_players   |-> <<>>,
     events          |-> <<>>,
     selected_event  |-> None,
     selected_player |-> None,
     current_half    |-> 1]

\* the players of a list that carry the name; find_player returns the first
PlayersNamed(players, name) ==
    {i \in 1..Len(players) : players[i].name = name}

\* find_player found a player
Found(players, name) == Truthy(name) /\ PlayersNamed(players, name) # {}

\* find_player(players, name), where Found
find_player(players, name) ==
    LET hits == PlayersNamed(players, name)
    IN  players[CHOOSE i \in hits : \A j \in hits : i <= j]

\* make_meta_event leaving the match id out of the event
make_meta_event_unlabelled(match_id, event, value) ==
    [timestamp    |-> Now,
     match_id     |-> "",
     half         |-> current_half,
     player       |-> "",
     event        |-> event,
     pos_primary  |-> "",
     team_primary |-> "",
     delta        |-> 0,
     meta_value   |-> value]

make_meta_event(match_id, event, value) ==
    [timestamp    |-> Now,
     match_id     |-> match_id,
     half         |-> current_half,
     player       |-> "",
     event        |-> event,
     pos_primary  |-> "",
     team_primary |-> "",
     delta        |-> 0,
     meta_value   |-> value]

\* the score text with the opponent's goals first
ScoreText_swapped(ours, opp) == StrOfNat(opp) \o "-" \o StrOfNat(ours)

\* f"{ours}-{opp}"
ScoreText(ours, opp) == StrOfNat(ours) \o "-" \o StrOfNat(opp)

\* end_dialog building the comment event before the player-of-the-match event
EndMetaEvents_reordered(match_id, ours, opp, mvp, comment) ==
    << make_meta_event(match_id, "SLUT_RESULTAT", ScoreText(ours, opp)),
       make_meta_event(match_id, "KOMMENTAR", Join(Strip(comment))),
       make_meta_event(match_id, "KAMPENS_SPILLER", mvp) >>

\* the three events end_dialog extends the list with
EndMetaEvents(match_id, ours, opp, mvp, comment) ==
    << make_meta_event(match_id, "SLUT_RESULTAT", ScoreText(ours, opp)),
       make_meta_event(match_id, "KAMPENS_SPILLER", mvp),
       make_meta_event(match_id, "KOMMENTAR", Join(Strip(comment))) >>

EndMetaNames == {"SLUT_RESULTAT", "KAMPENS_SPILLER", "KOMMENTAR"}

\* registrations and half-time captures in a list of events
Recorded(evs) == {i \in 1..Len(evs) : evs[i].event \notin EndMetaNames}

\* the rows of the statistics sheet that are registrations or captures
RecordedRows(sheet) == {i \in 1..Len(sheet) : sheet[i][5] \notin EndMetaNames}

\* what the exploration has used of MaxEvents and of MaxRows
EventsSpent == Cardinality(Recorded(events)) + Cardinality(RecordedRows(stats_sheet))
RowsSpent == Len(stats_sheet) + Len(events)

-----------------------------------------------------------------------------
Init ==
    /\ wizard_step = defaults.wizard_step
    /\ current_match = defaults.current_match
    /\ match_players = defaults.match_players
    /\ events = defaults.events
    /\ selected_event = defaults.selected_event
    /\ selected_player = defaults.selected_player
    /\ current_half = defaults.current_half
    /\ matches_sheet = <<>>
    /\ stats_sheet = <<>>
    /\ store_calls = <<>>
    /\ last_op = "init"

-----------------------------------------------------------------------------
(* The store: a call appends its rows or raises. *)

\* how a store operation ends: it returns, it raises while the worksheet is
\* opened, or the append request itself raises
Outcomes == {"ok", "raise_open", "raise_append"}

\* append_match_record sending its row a second time after the first append
append_match_record_twice(match, sheet, outcome) ==
    LET call == [op |-> "append_row", sheet |-> "Matches",
                 rows |-> <<MatchRow(match)>>]
    IN  IF outcome = "raise_open"
        THEN [raised |-> TRUE, sheet |-> sheet, calls |-> <<>>]
        ELSE IF outcome = "raise_append"
        THEN [raised |-> TRUE, sheet |-> sheet, calls |-> <<call>>]
        ELSE [raised |-> FALSE,
              sheet |-> Append(Append(sheet, MatchRow(match)), MatchRow(match)),
              calls |-> <<call, call>>]

\* append_match_record(match) on the sheet, ending as outcome
append_match_record(match, sheet, outcome) ==
    LET call == [op |-> "append_row", sheet |-> "Matches",
                 rows |-> <<MatchRow(match)>>]
    IN  IF outcome = "raise_open"
        THEN [raised |-> TRUE, sheet |-> sheet, calls |-> <<>>]
        ELSE IF outcome = "raise_append"
        THEN [raised |-> TRUE, sheet |-> sheet, calls |-> <<call>>]
        ELSE [raised |-> FALSE, sheet |-> Append(sheet, MatchRow(match)),
              calls |-> <<call>>]

\* write_stats_rows(events) on the sheet, ending as outcome
write_stats_rows(evs, sheet, outcome) ==
    LET call == [op |-> "append_rows", sheet |-> "stats",
                 rows |-> EventRows(evs)]
    IN  IF evs = <<>>
        THEN [raised |-> FALSE, sheet |-> sheet, calls |-> <<>>]
        ELSE IF outcome = "raise_open"
        THEN [raised |-> TRUE, sheet |-> sheet, calls |-> <<>>]
        ELSE IF outcome = "raise_append"
        THEN [raised |-> TRUE, sheet |-> sheet, calls |-> <<call>>]
        ELSE [raised |-> FALSE, sheet |-> sheet \o EventRows(evs),
              calls |-> <<call>>]

-----------------------------------------------------------------------------
(* Step 1: "Opret kamp" *)

\* "Opret kamp" with a form out of the given teams, dates and opponents
CreateMatchFrom(teams, dates, opponents) ==
    /\ wizard_step = 1
    /\ Len(stats_sheet) + 3 <= MaxRows
    /\ \E team \in teams, d \in dates, opp \in opponents,
          outcome \in Outcomes :
          LET match == create_match(d, team, opp)
              res == append_match_record(match, matches_sheet, outcome)
          IN  /\ matches_sheet' = res.sheet
              /\ store_calls' = res.calls
              /\ IF res.raised
                 THEN /\ last_op' = "create_raised"
                      /\ UNCHANGED session
                 ELSE /\ last_op' = "create"
                      /\ current_match' = match
                      /\ wizard_step' = 2
                      /\ events' = <<>>
                      /\ selected_event' = None
                      /\ selected_player' = None
                      /\ current_half' = 1
                      /\ UNCHANGED match_players
    /\ UNCHANGED stats_sheet

step_create_match == CreateMatchFrom(TeamInputs, DateInputs, OpponentInputs)

\* "Opret kamp" for either of two teams, so that two matches of a session
\* have different ids
step_create_match_mixed == CreateMatchFrom(MixTeams, DateInputs, MixOpponents)

\* "Opret kamp" over the forms explored for the match id
step_create_match_any == CreateMatchFrom(IdTeams, IdDates, IdOpponents)

-----------------------------------------------------------------------------
(* Step 2: "Start kamp" *)

\* sorted({p["pos_primary"] for p in players if p["pos_primary"]})
Positions ==
    {Roster[i].pos_primary : i \in {j \in 1..Len(Roster) : Roster[j].pos_primary # ""}}

\* the roster after the team filter and the position filter
Filtered(team_filter, pos_filter) ==
    LET byTeam == IF team_filter # "Alle"
                  THEN SelectSeq(Roster, LAMBDA p : p.team_primary = team_filter)
                  ELSE Roster
    IN  IF pos_filter # "Alle"
        THEN SelectSeq(byTeam, LAMBDA p : p.pos_primary = pos_filter)
        ELSE byTeam

\* the selected players collected from the end of the roster to its start
PlayersIn_reversed(selected) ==
    LET kept == SelectSeq(Roster, LAMBDA p : p.name \in selected)
    IN  [i \in 1..Len(kept) |-> kept[Len(kept) + 1 - i]]

\* [p for p in players if p["name"] in selected]
PlayersIn(selected) == SelectSeq(Roster, LAMBDA p : p.name \in selected)

step_select_players ==
    /\ wizard_step = 2
    /\ \E team_filter \in {"Alle", "1", "2", "3", "X"},
          pos_filter \in {"Alle"} \cup Positions :
          LET filtered == Filtered(team_filter, pos_filter)
          IN  \E selected \in SUBSET {filtered[i].name : i \in 1..Len(filtered)} :
                  IF selected = {}
                  THEN /\ last_op' = "start_rejected"
                       /\ UNCHANGED <<match_players, wizard_step>>
                  ELSE /\ last_op' = "start"
                       /\ match_players' = PlayersIn(selected)
                       /\ wizard_step' = 3
    /\ store_calls' = <<>>
    /\ UNCHANGED <<current_match, events, selected_event, selected_player,
                   current_half, matches_sheet, stats_sheet>>

-----------------------------------------------------------------------------
(* Step 3: the buttons of step_record and its two dialogs *)

\* the half buttons "1" and "2"
\* a half button stamping the events already held with the half chosen
set_half_restamping ==
    /\ wizard_step = 3
    /\ \E h \in {1, 2} :
          /\ current_half' = h
          /\ events' = [i \in 1..Len(events) |-> [events[i] EXCEPT !.half = h]]
    /\ last_op' = "half"
    /\ store_calls' = <<>>
    /\ UNCHANGED <<wizard_step, current_match, match_players,
                   selected_event, selected_player, matches_sheet, stats_sheet>>

set_half ==
    /\ wizard_step = 3
    /\ \E h \in {1, 2} : current_half' = h
    /\ last_op' = "half"
    /\ store_calls' = <<>>
    /\ UNCHANGED <<wizard_step, current_match, match_players, events,
                   selected_event, selected_player, matches_sheet, stats_sheet>>

\* an event type button
select_event ==
    /\ wizard_step = 3
    /\ \E l \in TypeClicks : selected_event' = l
    /\ last_op' = "select_event"
    /\ store_calls' = <<>>
    /\ UNCHANGED <<wizard_step, current_match, match_players, events,
                   selected_player, current_half, matches_sheet, stats_sheet>>

\* a player button for every player of the roster
select_player_from_roster ==
    /\ wizard_step = 3
    /\ \E i \in 1..Len(Roster) : selected_player' = Roster[i].name
    /\ last_op' = "select_player"
    /\ store_calls' = <<>>
    /\ UNCHANGED <<wizard_step, current_match, match_players, events,
                   selected_event, current_half, matches_sheet, stats_sheet>>

\* a player button: one per player of match_players
select_player ==
    /\ wizard_step = 3
    /\ \E i \in 1..Len(match_players) : selected_player' = match_players[i].name
    /\ last_op' = "select_player"
    /\ store_calls' = <<>>
    /\ UNCHANGED <<wizard_step, current_match, match_players, events,
                   selected_event, current_half, matches_sheet, stats_sheet>>

\* the "Registrer" button enabled on the event type alone
can_event_only == Truthy(selected_event)

\* can: "Registrer" is enabled
can == Truthy(selected_event) /\ Truthy(selected_player)

\* half_dialog writing its event to the store at once (write_stats_row)
half_dialog_writing ==
    /\ wizard_step = 3
    /\ EventsSpent < MaxEvents
    /\ RowsSpent < MaxRows
    /\ \E ours \in OursInputs, opp \in OppInputs :
          LET ev == make_meta_event(current_match.match_id,
                                    "HALVLEG_RESULTAT", ScoreText(ours, opp))
          IN  /\ events' = Append(events, ev)
              /\ stats_sheet' = Append(stats_sheet, _event_to_row(ev))
    /\ last_op' = "half_dialog"
    /\ store_calls' = <<>>
    /\ UNCHANGED <<wizard_step, current_match, match_players, selected_event,
                   selected_player, current_half, matches_sheet>>

\* half_dialog assigning the list instead of appending to it
half_dialog_assigning ==
    /\ wizard_step = 3
    /\ EventsSpent < MaxEvents
    /\ RowsSpent < MaxRows
    /\ \E ours \in OursInputs, opp \in OppInputs :
          events' = << make_meta_event(current_match.match_id,
                                       "HALVLEG_RESULTAT", ScoreText(ours, opp)) >>
    /\ last_op' = "half_dialog"
    /\ store_calls' = <<>>
    /\ UNCHANGED <<wizard_step, current_match, match_players, selected_event,
                   selected_player, current_half, matches_sheet, stats_sheet>>

\* "Gem" of half_dialog, explored while fewer than maxEvents events are spent
CaptureWithin(maxEvents) ==
    /\ wizard_step = 3
    /\ EventsSpent < maxEvents
    /\ RowsSpent < MaxRows
    /\ \E ours \in OursInputs, opp \in OppInputs :
          events' = Append(events,
                           make_meta_event(current_match.match_id,
                                           "HALVLEG_RESULTAT", ScoreText(ours, opp)))
    /\ last_op' = "half_dialog"
    /\ store_calls' = <<>>
    /\ UNCHANGED <<wizard_step, current_match, match_players, selected_event,
                   selected_player, current_half, matches_sheet, stats_sheet>>

half_dialog == CaptureWithin(MaxEvents)

\* "Gem" of half_dialog, pressed again and again
half_dialog_again == CaptureWithin(MaxCaptures)

\* "Registrer" building the event from the roster when the lookup misses
register_from_roster ==
    /\ wizard_step = 3
    /\ can
    /\ EventsSpent < MaxEvents
    /\ RowsSpent < MaxRows
    /\ LET p == find_player(IF Found(match_players, selected_player)
                            THEN match_players ELSE Roster, selected_player)
           ev == build_event(p, selected_event, current_match.match_id)
       IN  /\ last_op' = IF Found(match_players, selected_player)
                         THEN "register" ELSE "register_miss"
           /\ events' = Append(events, ev @@ [half |-> current_half])
           /\ selected_event' = IF Found(match_players, selected_player)
                                THEN None ELSE selected_event
           /\ selected_player' = None
    /\ store_calls' = <<>>
    /\ UNCHANGED <<wizard_step, current_match, match_players, current_half,
                   matches_sheet, stats_sheet>>

\* "Registrer": the button is disabled unless both slots are set
RegisterWithin(maxEvents) ==
    /\ wizard_step = 3
    /\ can
    /\ EventsSpent < maxEvents
    /\ RowsSpent < MaxRows
    /\ IF ~Found(match_players, selected_player)
       THEN \* st.warning, selected_player = None, st.rerun() ends the run
            /\ last_op' = "register_miss"
            /\ selected_player' = None
            /\ UNCHANGED <<events, selected_event>>
       ELSE LET p == find_player(match_players, selected_player)
                ev == build_event(p, selected_event, current_match.match_id)
            IN  /\ last_op' = "register"
                /\ events' = Append(events, ev @@ [half |-> current_half])
                /\ selected_event' = None
                /\ selected_player' = None
    /\ store_calls' = <<>>
    /\ UNCHANGED <<wizard_step, current_match, match_players, current_half,
                   matches_sheet, stats_sheet>>

register == RegisterWithin(MaxEvents)

\* "Registrer", pressed again and again
register_again == RegisterWithin(MaxRegistrations)

-----------------------------------------------------------------------------
(* Step 3: the counters shown beside the player buttons *)

\* counts[key] of a defaultdict(int)
CountAt(c, key) == IF key \in DOMAIN c THEN c[key] ELSE 0

\* the counters marking a pair as seen instead of counting it
RECURSIVE counts_flagging(_)
counts_flagging(evs) ==
    IF evs = <<>>
    THEN [k \in {} |-> 0]
    ELSE LET c == counts_flagging(SubSeq(evs, 1, Len(evs) - 1))
             e == evs[Len(evs)]
             key == <<e.player, e.event>>
         IN  IF Truthy(Get(e, "player", None))
             THEN [k \in DOMAIN c \cup {key} |-> IF k = key THEN 1 ELSE c[k]]
             ELSE c

\* counts: the loop over the events, one more for (player, event) of each
\* event with a player
RECURSIVE counts(_)
counts(evs) ==
    IF evs = <<>>
    THEN [k \in {} |-> 0]
    ELSE LET c == counts(SubSeq(evs, 1, Len(evs) - 1))
             e == evs[Len(evs)]
             key == <<e.player, e.event>>
         IN  IF Truthy(Get(e, "player", None))
             THEN [k \in DOMAIN c \cup {key} |->
                      CountAt(c, k) + (IF k = key THEN 1 ELSE 0)]
             ELSE c

\* " ".join of a list of texts
RECURSIVE JoinSpaced(_)
JoinSpaced(parts) ==
    IF parts = <<>> THEN ""
    ELSE IF Len(parts) = 1 THEN parts[1]
    ELSE parts[1] \o " " \o JoinSpaced(Tail(parts))

\* the "code:n" texts of one player, in the order of EVENT_TYPES, for the
\* counters above zero
RECURSIVE BadgeParts(_, _, _)
BadgeParts(c, name, k) ==
    IF k > Len(EVENT_TYPES) THEN <<>>
    ELSE LET n == CountAt(c, <<name, EVENT_TYPES[k][1]>>)
             rest == BadgeParts(c, name, k + 1)
         IN  IF n > 0 THEN <<EVENT_TYPES[k][2] \o ":" \o StrOfNat(n)>> \o rest
             ELSE rest

\* badge: the text written beside the button of a player
badge(name) == JoinSpaced(BadgeParts(counts(events), name, 1))

-----------------------------------------------------------------------------
(* Step 3: "Afslut" *)

\* end_dialog going on to the summary whether or not the write raised
end_dialog_advancing ==
    /\ wizard_step = 3
    /\ RowsSpent + 3 <= MaxRows
    /\ \E ours \in OursInputs, opp \in OppInputs,
          i \in 1..Len(match_players), comment \in CommentInputs,
          outcome \in Outcomes :
          LET extended == events \o EndMetaEvents(current_match.match_id, ours, opp,
                                                  match_players[i].name, comment)
              res == write_stats_rows(extended, stats_sheet, outcome)
          IN  /\ events' = extended
              /\ stats_sheet' = res.sheet
              /\ store_calls' = res.calls
              /\ last_op' = IF res.raised THEN "end_raised" ELSE "end"
              /\ wizard_step' = 4
    /\ UNCHANGED <<current_match, match_players, selected_event, selected_player,
                   current_half, matches_sheet>>

\* end_dialog staying in the recording step after a completed write
end_dialog_staying ==
    /\ wizard_step = 3
    /\ RowsSpent + 3 <= MaxRows
    /\ \E ours \in OursInputs, opp \in OppInputs,
          i \in 1..Len(match_players), comment \in CommentInputs,
          outcome \in Outcomes :
          LET extended == events \o EndMetaEvents(current_match.match_id, ours, opp,
                                                  match_players[i].name, comment)
              res == write_stats_rows(extended, stats_sheet, outcome)
          IN  /\ events' = extended
              /\ stats_sheet' = res.sheet
              /\ store_calls' = res.calls
              /\ last_op' = IF res.raised THEN "end_raised" ELSE "end"
    /\ UNCHANGED <<wizard_step, current_match, match_players, selected_event,
                   selected_player, current_half, matches_sheet>>

\* "Gem og afslut kamp" of end_dialog
end_dialog ==
    /\ wizard_step = 3
    /\ RowsSpent + 3 <= MaxRows
    /\ \E ours \in OursInputs, opp \in OppInputs,
          i \in 1..Len(match_players), comment \in CommentInputs,
          outcome \in Outcomes :
          LET extended == events \o EndMetaEvents(current_match.match_id, ours, opp,
                                                  match_players[i].name, comment)
              res == write_stats_rows(extended, stats_sheet, outcome)
          IN  /\ events' = extended
              /\ stats_sheet' = res.sheet
              /\ store_calls' = res.calls
              /\ IF res.raised
                 THEN /\ last_op' = "end_raised"
                      /\ UNCHANGED wizard_step
                 ELSE /\ last_op' = "end"
                      /\ wizard_step' = 4
    /\ UNCHANGED <<current_match, match_players, selected_event, selected_player,
                   current_half, matches_sheet>>

-----------------------------------------------------------------------------
(* Step 4: "Start ny kamp" *)

\* step_summary sending the wizard to the player selection
step_summary_to_players ==
    /\ wizard_step \notin {1, 2, 3}
    /\ wizard_step' = 2
    /\ current_match' = defaults.current_match
    /\ match_players' = defaults.match_players
    /\ events' = defaults.events
    /\ selected_event' = defaults.selected_event
    /\ selected_player' = defaults.selected_player
    /\ current_half' = defaults.current_half
    /\ last_op' = "reset"
    /\ store_calls' = <<>>
    /\ UNCHANGED <<matches_sheet, stats_sheet>>

\* step_summary resetting every key but the half
step_summary_keeping_half ==
    /\ wizard_step \notin {1, 2, 3}
    /\ wizard_step' = defaults.wizard_step
    /\ current_match' = defaults.current_match
    /\ match_players' = defaults.match_players
    /\ events' = defaults.events
    /\ selected_event' = defaults.selected_event
    /\ selected_player' = defaults.selected_player
    /\ UNCHANGED current_half
    /\ last_op' = "reset"
    /\ store_calls' = <<>>
    /\ UNCHANGED <<matches_sheet, stats_sheet>>

step_summary ==
    /\ wizard_step \notin {1, 2, 3}
    /\ wizard_step' = defaults.wizard_step
    /\ current_match' = defaults.current_match
    /\ match_players' = defaults.match_players
    /\ events' = defaults.events
    /\ selected_event' = defaults.selected_event
    /\ selected_player' = defaults.selected_player
    /\ current_half' = defaults.current_half
    /\ last_op' = "reset"
    /\ store_calls' = <<>>
    /\ UNCHANGED <<matches_sheet, stats_sheet>>

-----------------------------------------------------------------------------
Next ==
    \/ step_create_match
    \/ step_select_players
    \/ set_half
    \/ select_event
    \/ select_player
    \/ half_dialog
    \/ register
    \/ end_dialog
    \/ step_summary

Spec == Init /\ [][Next]_vars

-----------------------------------------------------------------------------
(* A session taken up in step 3 with any selection in the two slots: the    *)
(* player slot may name a roster player who is not in match_players, the    *)
(* stale state the lookup of "Registrer" (find_player) guards against.      *)

InitStale ==
    /\ wizard_step = 3
    /\ \E team \in TeamInputs, d \in DateInputs, opp \in OpponentInputs :
          /\ current_match = create_match(d, team, opp)
          /\ matches_sheet = <<MatchRow(create_match(d, team, opp))>>
    /\ \E selected \in (SUBSET RosterNames) \ {{}} :
          match_players = PlayersIn(selected)
    /\ events = <<>>
    /\ selected_event \in TypeClicks \cup {None}
    /\ selected_player \in RosterNames \cup {None}
    /\ current_half \in {1, 2}
    /\ stats_sheet = <<>>
    /\ store_calls = <<>>
    /\ last_op = "init"

SpecStale == InitStale /\ [][Next]_vars

-----------------------------------------------------------------------------
(* The first two steps of the wizard over many forms of step 1: every team  *)
(* of the selectbox, three dates, and opponents typed with spaces and tabs   *)
(* around and inside the name.                                               *)

NextId ==
    \/ step_create_match_any
    \/ step_select_players

SpecId == Init /\ [][NextId]_vars

-----------------------------------------------------------------------------
(* The recording step with the half-time capture pressed repeatedly: no      *)
(* registration and no end of the match, so the events held are captures.    *)

NextCapture ==
    \/ step_create_match
    \/ step_select_players
    \/ set_half
    \/ select_event
    \/ select_player
    \/ half_dialog_again

SpecCapture == Init /\ [][NextCapture]_vars

-----------------------------------------------------------------------------
(* The recording step with repeated registrations in one half, and the end   *)
(* of the match, which leaves its meta events in the list when the write     *)
(* raises.                                                                   *)

NextCount ==
    \/ step_create_match
    \/ step_select_players
    \/ select_event
    \/ select_player
    \/ register_again
    \/ end_dialog

SpecCount == Init /\ [][NextCount]_vars

-----------------------------------------------------------------------------
(* Sessions of several matches with different ids, in one half and without   *)
(* half-time captures.                                                       *)

NextMixed ==
    \/ step_create_match_mixed
    \/ step_select_players
    \/ select_event
    \/ select_player
    \/ register
    \/ end_dialog
    \/ step_summary

SpecMixed == Init /\ [][NextMixed]_vars

-----------------------------------------------------------------------------
(* Properties. *)

IsPrefix(a, b) == Len(a) <= Len(b) /\ SubSeq(b, 1, Len(a)) = a

\* the steps of end_dialog and of "Registrer"
EndStep == last_op' \in {"end", "end_raised"}
RegisterStep == last_op' \in {"register", "register_miss"}

\* how often an event name occurs in the rows of a batch
RowsNamed(rows, name) == Cardinality({i \in 1..Len(rows) : rows[i][5] = name})

\* C1: when the end of the match is confirmed, the events handed to the store
\* are the list as it stood before, in its order, followed by the three new
\* meta events SLUT_RESULTAT, KAMPENS_SPILLER, KOMMENTAR, and they are handed
\* over in one append_rows call (none when the worksheet could not be opened),
\* whose rows are all that a completed write adds to the sheet.
C1_EndBatchIsWholeList ==
    [][EndStep =>
        LET n == Len(events)
        IN  /\ Len(events') = n + 3
            /\ SubSeq(events', 1, n) = events
            /\ events'[n + 1].event = "SLUT_RESULTAT"
            /\ events'[n + 2].event = "KAMPENS_SPILLER"
            /\ events'[n + 3].event = "KOMMENTAR"
            /\ Len(store_calls') <= 1
            /\ \A k \in 1..Len(store_calls') :
                  /\ store_calls'[k].op = "append_rows"
                  /\ Len(store_calls'[k].rows) = n + 3
                  /\ \A j \in 1..(n + 3) :
                        store_calls'[k].rows[j] = _event_to_row(events'[j])
            /\ last_op' = "end" =>
                  /\ Len(store_calls') = 1
                  /\ stats_sheet' = stats_sheet \o store_calls'[1].rows
    ]_vars

\* a registration, then a completed end of match that wrote the four events
C1_Witness ==
    /\ last_op = "end"
    /\ Len(events) = 4
    /\ events[1].player # ""
    /\ Len(store_calls) = 1
    /\ Len(store_calls[1].rows) = 4

\* C2: if a store call raises during a transition (append_match_record in
\* step 1, the batch append in step 3), every session field keeps the value
\* it had before the attempt.
C2_SessionKeptOnRaise ==
    [][last_op' \in {"create_raised", "end_raised"} =>
        /\ wizard_step' = wizard_step
        /\ current_match' = current_match
        /\ match_players' = match_players
        /\ events' = events
        /\ selected_event' = selected_event
        /\ selected_player' = selected_player
        /\ current_half' = current_half
    ]_vars

\* C3: after failed attempts to end the match and one that succeeds, the
\* batch written holds exactly one SLUT_RESULTAT, one KAMPENS_SPILLER and one
\* KOMMENTAR event.
C3_RetryWritesOneOfEach ==
    last_op = "end" =>
        \A k \in 1..Len(store_calls) :
            \A name \in EndMetaNames : RowsNamed(store_calls[k].rows, name) = 1

\* C4: if the batch append raises the wizard stays in step 3, and the wizard
\* is in step 4 only after an end of match whose append completed, with the
\* rows of the events at the end of the sheet.
C4_NoAdvanceOnRaise ==
    /\ last_op = "end_raised" => wizard_step = 3
    /\ wizard_step = 4 =>
          /\ last_op = "end"
          /\ Len(store_calls) = 1
          /\ Len(stats_sheet) >= Len(events)
          /\ SubSeq(stats_sheet, Len(stats_sheet) - Len(events) + 1,
                    Len(stats_sheet)) = EventRows(events)

\* the append raised with the batch handed over, and the wizard is in step 3
C4_Witness ==
    /\ last_op = "end_raised"
    /\ Len(store_calls) = 1
    /\ wizard_step = 3
    /\ stats_sheet = <<>>

\* C5: the event log of the store changes only in a completed end of match,
\* the step from 3 to 4; no other handler writes to it.
C5_LogWrittenOnlyAtEnd ==
    [][stats_sheet' # stats_sheet =>
        /\ last_op' = "end"
        /\ wizard_step = 3
        /\ wizard_step' = 4
    ]_vars

\* a registration or a capture has put an event in the list; the log is empty
C5_Witness ==
    /\ wizard_step = 3
    /\ last_op \in {"register", "half_dialog"}
    /\ Len(events) >= 1
    /\ stats_sheet = <<>>
    /\ matches_sheet # <<>>

C7_RegisterAppendsEvent ==
    [][last_op' = "register" =>
        /\ Len(events') = Len(events) + 1
        /\ SubSeq(events', 1, Len(events)) = events
        /\ LET ev == events'[Len(events')]
           IN  /\ ev.player = selected_player
               /\ ev.event = selected_event
               /\ ev.match_id = current_match.match_id
               /\ ev.half = current_half
               /\ \E i \in 1..Len(Roster) :
                     /\ Roster[i].name = selected_player
                     /\ ev.pos_primary = Roster[i].pos_primary
                     /\ ev.team_primary = Roster[i].team_primary
    ]_vars

\* Bo's yellow card of the second half is the last event of the list
C7_Witness ==
    /\ last_op = "register"
    /\ events # <<>>
    /\ events[Len(events)].player = "Bo"
    /\ events[Len(events)].event = "Gult kort"
    /\ events[Len(events)].half = 2
    /\ events[Len(events)].pos_primary = "MV"

\* C8: from step 2 until the reset, every handler leaves the old list of
\* events a prefix of the new one, and a registration and a half-time capture
\* each make the list longer by exactly one.
C8_EventsAppendOnly ==
    [][(wizard_step \in {2, 3}) =>
        /\ IsPrefix(events, events')
        /\ last_op' \in {"register", "half_dialog"} => Len(events') = Len(events) + 1
        /\ last_op' \notin {"register", "half_dialog", "end", "end_raised"} =>
              events' = events
    ]_vars

\* a half-time capture appended after the three events of a failed ending
C8_Witness ==
    /\ last_op = "half_dialog"
    /\ Len(events) = 4
    /\ events[1].event = "SLUT_RESULTAT"
    /\ events[4].event = "HALVLEG_RESULTAT"

\* C9: the step is one of 1..4 and changes only from 1 to 2 in a created
\* match, from 2 to 3 in a confirmed selection, from 3 to 4 in a completed
\* end of match and from 4 to 1 in the reset.
C9_StepEdges ==
    [][/\ wizard_step \in 1..4
       /\ wizard_step' \in 1..4
       /\ wizard_step' # wizard_step =>
             \/ wizard_step = 1 /\ wizard_step' = 2 /\ last_op' = "create"
             \/ wizard_step = 2 /\ wizard_step' = 3 /\ last_op' = "start"
             \/ wizard_step = 3 /\ wizard_step' = 4 /\ last_op' = "end"
             \/ wizard_step = 4 /\ wizard_step' = 1 /\ last_op' = "reset"
    ]_vars

\* back in step 1 after a whole match
C9_Witness ==
    /\ last_op = "reset"
    /\ wizard_step = 1
    /\ matches_sheet # <<>>
    /\ stats_sheet # <<>>

\* C10: the reset of step 4 sets the step to 1, the match to None, the
\* players and the events to empty lists, both slots to None and the half
\* to 1, whatever they were, and writes nothing to the store.
C10_ResetRestoresDefaults ==
    [][last_op' = "reset" =>
        /\ wizard_step' = 1
        /\ current_match' = <<>>
        /\ match_players' = <<>>
        /\ events' = <<>>
        /\ selected_event' = "None"
        /\ selected_player' = "None"
        /\ current_half' = 1
        /\ matches_sheet' = matches_sheet
        /\ stats_sheet' = stats_sheet
        /\ store_calls' = <<>>
    ]_vars

\* the reset ran after a match whose written log holds a second-half row
C10_Witness ==
    /\ last_op = "reset"
    /\ current_half = 1
    /\ events = <<>>
    /\ selected_event = None
    /\ \E i \in 1..Len(stats_sheet) : stats_sheet[i][3] = 2

\* the players are players of the roster, each once, in the order of the roster
InRosterOrder(ps) ==
    /\ \A i \in 1..Len(ps) : \E k \in 1..Len(Roster) : Roster[k] = ps[i]
    /\ \A i, j \in 1..Len(ps) : \A k, l \in 1..Len(Roster) :
          (i < j /\ Roster[k] = ps[i] /\ Roster[l] = ps[j]) => k < l

C12_CreateAppendsOneRow ==
    [][last_op' = "create" =>
        /\ wizard_step = 1
        /\ wizard_step' = 2
        /\ current_match' = [match_id    |-> "2024-03-01_H1_FC_Falcon",
                             date        |-> "2024-03-01",
                             team_number |-> "1",
                             opponent    |-> "FC Falcon"]
        /\ Len(matches_sheet') = Len(matches_sheet) + 1
        /\ SubSeq(matches_sheet', 1, Len(matches_sheet)) = matches_sheet
        /\ matches_sheet'[Len(matches_sheet')] =
              << current_match'.match_id, current_match'.date,
                 current_match'.team_number, current_match'.opponent >>
        /\ Len(store_calls') = 1
        /\ store_calls'[1].op = "append_row"
        /\ events' = <<>>
        /\ selected_event' = "None"
        /\ selected_player' = "None"
        /\ current_half' = 1
        /\ stats_sheet' = stats_sheet
    ]_vars

\* the second match of the session has been created
C12_Witness ==
    /\ last_op = "create"
    /\ wizard_step = 2
    /\ Len(matches_sheet) = 2
    /\ events = <<>>

\* every event with a player carries that player's name, position and team
\* as a player of the list has them
EventsFromPlayers(evs, players) ==
    \A i \in 1..Len(evs) :
        evs[i].player # "" =>
            \E k \in 1..Len(players) :
                /\ players[k].name = evs[i].player
                /\ players[k].pos_primary = evs[i].pos_primary
                /\ players[k].team_primary = evs[i].team_primary

\* C13: when the lookup of "Registrer" misses, no event is built or appended
\* and selected_player is emptied; so every event of the list with a player
\* was built from a player of match_players.
C13_MissAppendsNothing ==
    [][/\ last_op' = "register_miss" =>
             /\ \A k \in 1..Len(match_players) :
                   match_players[k].name # selected_player
             /\ events' = events
             /\ selected_player' = "None"
             /\ stats_sheet' = stats_sheet
       /\ EventsFromPlayers(events', match_players')
    ]_vars

\* the lookup missed on Bo while only Anna plays; nothing was appended
C13_Witness ==
    /\ last_op = "register_miss"
    /\ Len(match_players) = 1
    /\ match_players[1].name = "Anna"
    /\ events = <<>>
    /\ selected_player = None

\* the four names of meta events
MetaNames == {"HALVLEG_RESULTAT", "SLUT_RESULTAT", "KAMPENS_SPILLER", "KOMMENTAR"}

\* a row (Timestamp, MatchID, Half, Player, Event, Position, Team, Delta,
\* MetaValue) is the row of a meta event or of a registered player event
RowWellFormed(row) ==
    /\ Len(row) = 9
    /\ (row[8] = 0) <=> (row[5] \in MetaNames)
    /\ row[5] \in MetaNames =>
          /\ row[4] = "" /\ row[6] = "" /\ row[7] = ""
          /\ row[5] \in {"HALVLEG_RESULTAT", "SLUT_RESULTAT"} => row[9] = "12-9"
          /\ row[5] = "KAMPENS_SPILLER" => row[9] \in RosterNames
          /\ row[5] = "KOMMENTAR" => row[9] = "Godt kamp"
    /\ row[5] \notin MetaNames =>
          /\ row[8] = 1
          /\ row[9] = ""
          /\ row[4] \in RosterNames
          /\ row[5] \in EventLabels

\* C14: in every row of a batch handed to the store, and so in every row of
\* the event log, delta is 0 exactly for the meta events, which have an empty
\* player, position and team and their payload in meta_value; the row of a
\* registered player event has delta 1 and an empty meta_value.
C14_RowsCarryDelta ==
    /\ \A i \in 1..Len(stats_sheet) : RowWellFormed(stats_sheet[i])
    /\ \A k \in 1..Len(store_calls) :
          store_calls[k].op = "append_rows" =>
              \A j \in 1..Len(store_calls[k].rows) :
                  RowWellFormed(store_calls[k].rows[j])

\* the log holds Anna's goal with delta 1 and the final score with delta 0
C14_Witness ==
    /\ \E i \in 1..Len(stats_sheet) :
          /\ stats_sheet[i][4] = "Anna"
          /\ stats_sheet[i][5] = "Mål"
          /\ stats_sheet[i][8] = 1
    /\ \E i \in 1..Len(stats_sheet) :
          /\ stats_sheet[i][5] = "SLUT_RESULTAT"
          /\ stats_sheet[i][8] = 0

\* the opponent as stored, with one underscore for each of its spaces
Underscored ==
    [o \in {"FC Falcon", "FC  Foo", "FC Foo", "A B C", "A\tB", "Ajax", ""} |->
        CASE o = "FC Falcon" -> "FC_Falcon"
          [] o = "FC  Foo"   -> "FC__Foo"
          [] o = "FC Foo"    -> "FC_Foo"
          [] o = "A B C"     -> "A_B_C"
          [] o = "A\tB"      -> "A\tB"
          [] o = "Ajax"      -> "Ajax"
          [] o = ""          -> ""]

\* C15: the match id is "<YYYY-MM-DD>_H<team>_<opponent>", the opponent
\* trimmed of the white space around it and then with one underscore for each
\* space, runs of spaces kept; team 1 against "FC Falcon" on 2024-03-01 gives
\* "2024-03-01_H1_FC_Falcon", with or without white space around the name;
\* the match holds that id, the trimmed opponent, the date and the team, and
\* the row of the match index starts with the id.
C15_MatchIdFormat ==
    /\ create_match_id([year |-> 2024, month |-> 3, day |-> 1], "1",
                       <<"F", "C", " ", "F", "a", "l", "c", "o", "n">>)
          = "2024-03-01_H1_FC_Falcon"
    /\ create_match_id([year |-> 2024, month |-> 3, day |-> 1], "1",
                       <<" ", "F", "C", " ", "F", "a", "l", "c", "o", "n", "\n">>)
          = "2024-03-01_H1_FC_Falcon"
    /\ current_match # NoMatch =>
          /\ current_match.date \in {"2024-03-01", "2025-11-09", "2024-12-31"}
          /\ current_match.team_number \in {"1", "2", "3"}
          /\ current_match.opponent \in DOMAIN Underscored
          /\ current_match.match_id =
                current_match.date \o "_H" \o current_match.team_number \o "_"
                    \o Underscored[current_match.opponent]
          /\ matches_sheet # <<>>
          /\ matches_sheet[Len(matches_sheet)] =
                << current_match.match_id, current_match.date,
                   current_match.team_number, current_match.opponent >>

\* team 3 against "FC  Foo" on 2025-11-09: the two spaces give two underscores
C15_Witness ==
    /\ last_op = "create"
    /\ current_match # NoMatch
    /\ current_match.match_id = "2025-11-09_H3_FC__Foo"
    /\ current_match.opponent = "FC  Foo"

\* C16: a half button can be pressed in every state of step 3, whatever the
\* two selection slots hold; pressing it sets current_half to 1 or 2 and
\* leaves the events (so the half of each), both slots, the match, its
\* players, the step and the two sheets as they were.
C16_HalfTouchesOnlyHalf ==
    [][ /\ (wizard_step = 3) => ENABLED set_half
        /\ (last_op' = "half") =>
              /\ wizard_step = 3
              /\ current_half' \in {1, 2}
              /\ events' = events
              /\ \A i \in 1..Len(events) : events'[i].half = events[i].half
              /\ selected_event' = selected_event
              /\ selected_player' = selected_player
              /\ current_match' = current_match
              /\ match_players' = match_players
              /\ wizard_step' = wizard_step
              /\ matches_sheet' = matches_sheet
              /\ stats_sheet' = stats_sheet ]_vars

\* the second half chosen with both slots armed and an event of the first held
C16_Witness ==
    /\ last_op = "half"
    /\ current_half = 2
    /\ selected_event # None
    /\ selected_player # None
    /\ events # <<>>
    /\ events[1].half = 1

\* C17: "Gem" of the half-time dialog can be pressed in step 3 however many
\* captures the list already holds; each press appends exactly one event,
\* with event "HALVLEG_RESULTAT", meta_value "<own>-<opp>" (own goals 12 and
\* opponent goals 9 give "12-9"), delta 0, the empty player and the half
\* current at the press, and leaves the step and both selection slots alone.
C17_CaptureAppendsOneMeta ==
    [][ /\ (wizard_step = 3 /\ Len(events) < MaxCaptures)
              => ENABLED half_dialog_again
        /\ (last_op' = "half_dialog") =>
              /\ Len(events') = Len(events) + 1
              /\ SubSeq(events', 1, Len(events)) = events
              /\ LET e == events'[Len(events')]
                 IN  /\ e.event = "HALVLEG_RESULTAT"
                     /\ e.meta_value = "12-9"
                     /\ e.delta = 0
                     /\ e.player = ""
                     /\ e.half = current_half
                     /\ e.match_id = current_match.match_id
              /\ wizard_step = 3
              /\ wizard_step' = 3
              /\ selected_event' = selected_event
              /\ selected_player' = selected_player
              /\ current_half' = current_half
              /\ stats_sheet' = stats_sheet ]_vars

\* a third capture, in the second half with a player selected, after a first
\* capture in the first half
C17_Witness ==
    /\ last_op = "half_dialog"
    /\ Len(events) = 3
    /\ events[1].half = 1
    /\ events[3].half = 2
    /\ events[3].meta_value = "12-9"
    /\ selected_player # None

\* the events of the list with the given player and event type
Occurrences(name, label) ==
    {j \in 1..Len(events) : events[j].player = name /\ events[j].event = label}

\* C18: in step 3 the counter shown for a player and an event type is the
\* number of events of the list with that player name and that event type;
\* an event without a player adds to no counter, so the player-of-the-match
\* event adds nothing to the counters of the player it names; the text beside
\* a player with no such events is empty.
C18_CountersCountEvents ==
    wizard_step = 3 =>
        LET c == counts(events)
        IN  /\ \A i \in 1..Len(match_players), k \in 1..Len(EVENT_TYPES) :
                  CountAt(c, <<match_players[i].name, EVENT_TYPES[k][1]>>)
                      = Cardinality(Occurrences(match_players[i].name,
                                                EVENT_TYPES[k][1]))
            /\ \A key \in DOMAIN c :
                  /\ key[1] # ""
                  /\ key[2] \in EventLabels
                  /\ c[key] = Cardinality(Occurrences(key[1], key[2]))
            /\ \A i \in 1..Len(match_players) :
                  (\A j \in 1..Len(events) : events[j].player # match_players[i].name)
                      => badge(match_players[i].name) = ""

\* two goals of Anna held beside a player-of-the-match event naming Anna,
\* left in the list by an end of the match whose write raised
C18_Witness ==
    /\ wizard_step = 3
    /\ \E j \in 1..Len(events) :
          events[j].event = "KAMPENS_SPILLER" /\ events[j].meta_value = "Anna"
    /\ Cardinality(Occurrences("Anna", "Mål")) = 2
    /\ badge("Anna") = "M:2"

\* C19: an end of the match whose batch write completes starts in step 3 and
\* leaves the wizard in step 4; in step 4 nothing can be registered, captured
\* or ended, the only step is "Start ny kamp", which writes nothing to the
\* statistics sheet, empties the events and drops the match; so after a
\* completed batch write no further write happens before a new match is
\* created, and the list that was written is never written again.
C19_FlushedOncePerMatch ==
    [][ /\ (last_op' = "end") =>
              /\ wizard_step = 3
              /\ wizard_step' = 4
              /\ Len(store_calls') = 1
              /\ store_calls'[1].rows = EventRows(events')
              /\ stats_sheet' = stats_sheet \o EventRows(events')
        /\ (wizard_step = 4) =>
              /\ ~ ENABLED end_dialog
              /\ ~ ENABLED register
              /\ ~ ENABLED half_dialog
              /\ last_op' = "reset"
              /\ wizard_step' = 1
              /\ events' = <<>>
              /\ current_match' = NoMatch
              /\ stats_sheet' = stats_sheet
              /\ store_calls' = <<>>
        /\ (stats_sheet' # stats_sheet) =>
              /\ wizard_step = 3
              /\ current_match # NoMatch
              /\ last_op' \in {"end", "end_raised"} ]_vars

\* the second match of a session ended, after the first was ended and written
C19_Witness ==
    /\ last_op = "end"
    /\ wizard_step = 4
    /\ Len(matches_sheet) >= 2
    /\ Len(stats_sheet) = 6
    /\ Len(events) = 3

\* C20: in every state of a session that starts at step 1, selected_player is
\* None or the name of a player of match_players, and selected_event is None
\* or one of the seven labels of EVENT_TYPES; so whenever "Registrer" is
\* enabled the player is found, and the lookup-miss branch is never taken.
C20_SlotsValid ==
    /\ selected_player = None
          \/ \E i \in 1..Len(match_players) : match_players[i].name = selected_player
    /\ selected_event = None \/ selected_event \in EventLabels
    /\ Cardinality(EventLabels) = 7
    /\ can => Found(match_players, selected_player)
    /\ last_op # "register_miss"

\* both slots set in the second match of a session, played by Bo alone
C20_Witness ==
    /\ wizard_step = 3
    /\ selected_player = "Bo"
    /\ selected_event = "Gult kort"
    /\ Len(match_players) = 1
    /\ Len(matches_sheet) >= 2

\* C21: in every state of step 3 or 4 there is a current match and at least
\* one player of the match, and every event of the list carries the match id
\* of the current match; in steps 1 and 2 the list is empty; so every row of
\* a batch handed to the statistics sheet carries the id of the match being
\* ended, and no batch holds events of two match creations.
C21_EventsOfCurrentMatch ==
    /\ wizard_step \in {3, 4} =>
          /\ current_match # NoMatch
          /\ match_players # <<>>
          /\ \A j \in 1..Len(events) :
                events[j].match_id = current_match.match_id
    /\ wizard_step \in {1, 2} => events = <<>>
    /\ last_op \in {"end", "end_raised"} =>
          \A k \in 1..Len(store_calls) :
             \A j \in 1..Len(store_calls[k].rows) :
                store_calls[k].rows[j][2] = current_match.match_id

\* a match of team 2 ended and written, with a registration, after a match
\* of team 1 was written in the same session
C21_Witness ==
    /\ last_op = "end"
    /\ current_match # NoMatch
    /\ current_match.team_number = "2"
    /\ \E j \in 1..Len(events) : events[j].player # ""
    /\ stats_sheet # <<>>
    /\ stats_sheet[1][2] # current_match.match_id
    /\ stats_sheet[Len(stats_sheet)][2] = current_match.match_id

====
